---- MODULE Spec2Model ----
(***************************************************************************)
(* shrink-iw4x (src/main.rs): removes image, sound and video entries from  *)
(* the .iwd containers under <base>/main and <base>/iw4x by rewriting each *)
(* container into a temporary sibling and swapping it in.                  *)
(*                                                                         *)
(* An entry name is a sequence of atoms: "/" and "." are the two           *)
(* characters the path logic looks at, every other atom is a run of        *)
(* ordinary characters (no atom is a concatenation of others).  Path       *)
(* handling follows the Unix implementation of std::path.                  *)
(***************************************************************************)
EXTENDS Integers, Sequences, FiniteSets, TLC

\* ------------------------------------------------------------- bounds
MaxNameLen == 4      \* atoms in an enumerated entry name
MaxEntries == 3      \* entries in an enumerated container
MaxFiles   == 2      \* directory entries over the two work directories
MaxVideo   == 1      \* size of a video directory
MaxRuns    == 2      \* invocations of the program on the same tree

\* ---------------------------------------------------------- constants
DIRS_TO_PROCESS      == <<"main", "iw4x">>
REMOVABLE_PATTERNS   == <<"images", "sound", "video">>
REMOVABLE_EXTENSIONS == <<"iwi", "mp3">>

Range(s) == {s[n] : n \in 1..Len(s)}

\* ------------------------------------------------- std::path, on atoms
RECURSIVE SplitAt(_, _)
SplitAt(s, sep) ==
    IF s = <<>> THEN << <<>> >>
    ELSE LET rest == SplitAt(Tail(s), sep)
         IN  IF Head(s) = sep
             THEN << <<>> >> \o rest
             ELSE << <<Head(s)>> \o Head(rest) >> \o Tail(rest)

\* Path::components: a leading "/" is RootDir, a leading "." segment is
\* CurDir, empty segments and other "." segments are dropped, ".." is
\* ParentDir and everything else is Normal.
Components(name) ==
    LET segs    == SplitAt(name, "/")
        hasRoot == name # <<>> /\ name[1] = "/"
        leadCur == ~hasRoot /\ segs[1] = <<".">>
        body    == IF leadCur THEN Tail(segs) ELSE segs
        kept    == SelectSeq(body, LAMBDA g : g # <<>> /\ g # <<".">>)
        first   == IF hasRoot THEN << [kind |-> "RootDir", seg |-> <<"/">>] >>
                   ELSE IF leadCur THEN << [kind |-> "CurDir", seg |-> <<".">>] >>
                   ELSE <<>>
    IN  first \o [n \in 1..Len(kept) |->
                    [kind |-> IF kept[n] = <<".", ".">> THEN "ParentDir" ELSE "Normal",
                     seg  |-> kept[n]]]

\* Path::starts_with(pattern) for a one-segment pattern.
StartsWith(name, pattern) ==
    LET c == Components(name)
    IN  Len(c) >= 1 /\ c[1] = [kind |-> "Normal", seg |-> <<pattern>>]

\* Path::file_name: the last component when it is Normal, else none (<<>>).
FileName(name) ==
    LET c == Components(name)
    IN  IF Len(c) >= 1 /\ c[Len(c)].kind = "Normal" THEN c[Len(c)].seg ELSE <<>>

LastDot(seg) ==
    LET dots == {n \in 1..Len(seg) : seg[n] = "."}
    IN  IF dots = {} THEN 0 ELSE CHOOSE n \in dots : \A m \in dots : m <= n

\* the text after the final dot, a leading dot included
ExtensionAnyDot(name) ==
    LET f == FileName(name)
        p == LastDot(f)
    IN  IF f = <<>> \/ p = 0
        THEN [some |-> FALSE, ext |-> <<>>]
        ELSE [some |-> TRUE, ext |-> SubSeq(f, p + 1, Len(f))]

\* Path::extension: [some, ext]; none when there is no file name, no dot,
\* or the only dot is the first character.
Extension(name) ==
    LET f == FileName(name)
        p == LastDot(f)
    IN  IF f = <<>> \/ p <= 1
        THEN [some |-> FALSE, ext |-> <<>>]
        ELSE [some |-> TRUE, ext |-> SubSeq(f, p + 1, Len(f))]

should_remove_file(name) ==
    \/ \E n \in 1..Len(REMOVABLE_PATTERNS) : StartsWith(name, REMOVABLE_PATTERNS[n])
    \/ LET e == Extension(name)
       IN  e.some /\ \E n \in 1..Len(REMOVABLE_EXTENSIONS) :
                        e.ext = <<REMOVABLE_EXTENSIONS[n]>>

\* --------------------------------------------------------------- state
VARIABLES
    base,             \* base_dir.exists()
    dirs,             \* dirs[n]: <base>/DIRS_TO_PROCESS[n] exists
    video,            \* video[n]: <work_dir>/video: whether it exists, and its size
    fs,               \* fs[n][m]: the m-th directory entry of work directory n
    tmp,              \* tmp[n][m]: the sibling <name>.iwd.temp of that entry
    run,              \* invocation number
    pc,               \* position of the program
    d, k,             \* current work directory and directory entry
    stats,            \* ProcessingStats of main
    exit,             \* "running", or how main returned: "ok" / "err"
    reported,         \* what display_total printed
    archive,          \* the opened ZipArchive: its directory of entries
    total_files,      \* archive.len() taken in process_iwd_file
    i,                \* loop index of analyze_archive / create_filtered_archive
    files_to_remove,  \* Vec<usize> of analyze_archive
    bytes_to_remove,
    ret,              \* result of process_iwd_file
    \* history of the current process_iwd_file call
    orig,             \* the container as it was when the call started
    origTmp,          \* the temporary sibling as it was when the call started
    ops,              \* filesystem mutations the call performed, in order
    dropped,          \* indices whose raw_copy_file failed
    failure,          \* which fallible step made the call return Err
    \* history of the run
    rebuilt,          \* rebuilt[n][m]: a call that returned rebuilt the entry
    results           \* what was added to stats, in order

fsv    == <<base, dirs, video, fs, tmp>>
mainv  == <<run, pc, d, k, stats, exit, reported>>
callv  == <<archive, total_files, i, files_to_remove, bytes_to_remove, ret>>
histv  == <<orig, origTmp, ops, dropped, failure>>
vars   == <<fsv, mainv, callv, histv, rebuilt, results>>

NoDir    == [exists |-> FALSE, size |-> 0]
VideoDir(size) == [exists |-> TRUE, size |-> size]
NoTemp   == [exists |-> FALSE, entries |-> <<>>, finalized |-> FALSE]
NoRet    == [ok |-> TRUE, files |-> 0, bytes |-> 0]
ErrRet   == [ok |-> FALSE, files |-> 0, bytes |-> 0]
NoReport == [shown |-> FALSE, files |-> 0, bytes |-> 0]
OtherFile   == [kind |-> "other", valid |-> FALSE, entries |-> <<>>]
GoneFile    == [kind |-> "gone", valid |-> FALSE, entries |-> <<>>]
IwdFile(es) == [kind |-> "iwd", valid |-> TRUE, entries |-> es]
BadIwdFile  == [kind |-> "iwd", valid |-> FALSE, entries |-> <<>>]

\* ProcessingStats::new and ProcessingStats::add
StatsNew == [files_removed |-> 0, bytes_removed |-> 0]
\* the byte count left out of the sum
StatsAddFilesOnly(s, files, bytes) ==
    [files_removed |-> s.files_removed + files,
     bytes_removed |-> s.bytes_removed]
StatsAdd(s, files, bytes) ==
    [files_removed |-> s.files_removed + files,
     bytes_removed |-> s.bytes_removed + bytes]

Dirs == 1..Len(DIRS_TO_PROCESS)
CallReset ==
    /\ archive' = <<>> /\ total_files' = 0 /\ i' = 0
    /\ files_to_remove' = <<>> /\ bytes_to_remove' = 0 /\ ret' = NoRet
    /\ orig' = <<>> /\ origTmp' = NoTemp /\ ops' = <<>> /\ dropped' = {}
    /\ failure' = "none"

\* ------------------------------------------------------- main (40-59)
MainStart ==
    /\ pc = "main"
    /\ IF ~base
       THEN /\ exit' = "ok" /\ pc' = "exit"
            /\ UNCHANGED <<stats, d>>
       ELSE /\ stats' = StatsNew /\ d' = 1 /\ pc' = "dir"
            /\ UNCHANGED exit
    /\ UNCHANGED <<fsv, run, k, reported, callv, histv, rebuilt, results>>

MainFinish ==
    /\ pc = "dir" /\ d > Len(DIRS_TO_PROCESS)
    /\ reported' = [shown |-> TRUE, files |-> stats.files_removed,
                    bytes |-> stats.bytes_removed]
    /\ exit' = "ok" /\ pc' = "exit"
    /\ UNCHANGED <<fsv, run, d, k, stats, callv, histv, rebuilt, results>>

\* process_directory up to the video directory (61-68)
ProcessDirectory ==
    /\ pc = "dir" /\ d <= Len(DIRS_TO_PROCESS)
    /\ IF ~dirs[d]
       THEN d' = d + 1 /\ pc' = pc
       ELSE d' = d /\ pc' = "video"
    /\ UNCHANGED <<fsv, run, k, stats, exit, reported, callv, histv, rebuilt, results>>

\* get_dir_size skips the entries it cannot walk, so it may report less.
GetDirSizeResults(size) == 0..size

\* process_video_directory and the stats.add of its caller (70-72, 79-92)
ProcessVideoDirectory ==
    /\ pc = "video"
    /\ \/ /\ video[d] = NoDir
          /\ pc' = "walk" /\ k' = 1
          /\ UNCHANGED <<video, stats, exit, results>>
       \/ /\ video[d] # NoDir               \* get_dir_size(&video_dir)? fails
          /\ exit' = "err" /\ pc' = "exit"
          /\ UNCHANGED <<video, stats, k, results>>
       \/ /\ video[d] # NoDir               \* fs::remove_dir_all(&video_dir)? fails
          /\ \E left \in 0..video[d].size :
                video' = [video EXCEPT ![d] = VideoDir(left)]
          /\ exit' = "err" /\ pc' = "exit"
          /\ UNCHANGED <<stats, k, results>>
       \/ /\ video[d] # NoDir
          /\ \E video_size \in GetDirSizeResults(video[d].size) :
                /\ stats' = StatsAdd(stats, 0, video_size)
                /\ results' = Append(results, [kind |-> "video", dir |-> d, entry |-> 0,
                                 ok |-> TRUE, files |-> 0, bytes |-> video_size])
          /\ video' = [video EXCEPT ![d] = NoDir]
          /\ pc' = "walk" /\ k' = 1
          /\ UNCHANGED exit
    /\ UNCHANGED <<base, dirs, fs, tmp, run, d, reported, callv, histv, rebuilt>>

\* path.is_file() && extension == "iwd" (99)
IsIwdFile(f) == f.kind = "iwd"

\* one iteration of the WalkDir loop of process_iwd_files (95-100, 107)
WalkNext ==
    /\ pc = "walk"
    /\ \/ /\ exit' = "err" /\ pc' = "exit"          \* entry? fails
          /\ UNCHANGED <<d, k>>
       \/ /\ k > Len(fs[d])
          /\ d' = d + 1 /\ pc' = "dir"
          /\ UNCHANGED <<k, exit>>
       \/ /\ k <= Len(fs[d])
          /\ IF IsIwdFile(fs[d][k])
             THEN pc' = "open" /\ k' = k
             ELSE pc' = pc /\ k' = k + 1
          /\ UNCHANGED <<d, exit>>
    /\ UNCHANGED <<fsv, run, stats, reported, callv, histv, rebuilt, results>>

\* ---------------------------------------- process_iwd_file (133-153)
Fail(step) ==
    /\ ret' = ErrRet /\ failure' = step /\ pc' = "ret"

\* the temporary file created as soon as the container is opened
OpenCreatingTemp ==
    /\ pc = "open"
    /\ orig' = fs[d][k].entries /\ origTmp' = tmp[d][k]
    /\ tmp' = [tmp EXCEPT ![d][k] =
                  [exists |-> TRUE, entries |-> <<>>, finalized |-> FALSE]]
    /\ \/ /\ Fail("open")
          /\ UNCHANGED <<archive, total_files, i>>
       \/ /\ fs[d][k].valid
          /\ archive' = fs[d][k].entries
          /\ total_files' = Len(fs[d][k].entries)
          /\ i' = 1 /\ pc' = "analyze"
          /\ UNCHANGED <<ret, failure>>
    /\ UNCHANGED <<base, dirs, video, fs, run, d, k, stats, exit, reported,
                   files_to_remove, bytes_to_remove, ops, dropped, rebuilt, results>>

\* File::open(path)? and ZipArchive::new(file)? (134-136)
Open ==
    /\ pc = "open"
    /\ orig' = fs[d][k].entries /\ origTmp' = tmp[d][k]
    /\ \/ /\ Fail("open")
          /\ UNCHANGED <<archive, total_files, i>>
       \/ /\ fs[d][k].valid
          /\ archive' = fs[d][k].entries
          /\ total_files' = Len(fs[d][k].entries)
          /\ i' = 1 /\ pc' = "analyze"
          /\ UNCHANGED <<ret, failure>>
    /\ UNCHANGED <<fsv, run, d, k, stats, exit, reported, files_to_remove,
                   bytes_to_remove, ops, dropped, rebuilt, results>>

\* one iteration of analyze_archive (159-165); indices are 1-based here
AnalyzeStep ==
    /\ pc = "analyze" /\ i <= Len(archive)
    /\ \/ /\ Fail("inspect")                          \* archive.by_index(i)?
          /\ UNCHANGED <<i, files_to_remove, bytes_to_remove>>
       \/ /\ IF should_remove_file(archive[i].name)
             THEN /\ files_to_remove' = Append(files_to_remove, i)
                  /\ bytes_to_remove' = bytes_to_remove + archive[i].size
             ELSE UNCHANGED <<files_to_remove, bytes_to_remove>>
          /\ i' = i + 1
          /\ UNCHANGED <<ret, failure, pc>>
    /\ UNCHANGED <<fsv, run, d, k, stats, exit, reported, archive, total_files,
                   orig, origTmp, ops, dropped, rebuilt, results>>

\* the test inverted
RemovalEmptyInverted(removal) == removal # <<>>
\* files_to_remove.is_empty() (139)
RemovalEmpty(removal) == removal = <<>>

\* the end of analyze_archive and the early return (138-141)
AnalyzeDone ==
    /\ pc = "analyze" /\ i > Len(archive)
    /\ IF RemovalEmpty(files_to_remove)
       THEN ret' = [ok |-> TRUE, files |-> 0, bytes |-> 0] /\ pc' = "ret"
       ELSE ret' = ret /\ pc' = "create"
    /\ UNCHANGED <<fsv, run, d, k, stats, exit, reported, archive, total_files, i,
                   files_to_remove, bytes_to_remove, histv, rebuilt, results>>

\* ------------------------------------ create_filtered_archive (170-198)
\* File::create(&temp_path)? and ZipWriter::new (176-178)
CreateTemp ==
    /\ pc = "create"
    /\ \/ /\ Fail("create")
          /\ UNCHANGED <<tmp, i, ops>>
       \/ /\ tmp' = [tmp EXCEPT ![d][k] =
                        [exists |-> TRUE, entries |-> <<>>, finalized |-> FALSE]]
          /\ ops' = Append(ops, "create")
          /\ i' = 1 /\ pc' = "copy"
          /\ UNCHANGED <<ret, failure>>
    /\ UNCHANGED <<base, dirs, video, fs, run, d, k, stats, exit, reported, archive,
                   total_files, files_to_remove, bytes_to_remove, orig, origTmp,
                   dropped, rebuilt, results>>

\* the index tested one off
RetainedOffByOne(n, removal) == (n + 1) \notin Range(removal)
\* !files_to_remove.contains(&i) (181)
Retained(n, removal) == n \notin Range(removal)

\* the record put in front of those written so far
RawCopyFront(written, entry) == <<entry>> \o written
\* zip_writer.raw_copy_file(file) succeeding: the record goes to the end
RawCopy(written, entry) == Append(written, entry)

\* one iteration of the copy loop (180-191)
CopyStep ==
    /\ pc = "copy" /\ i <= total_files
    /\ IF ~Retained(i, files_to_remove)
       THEN /\ i' = i + 1
            /\ UNCHANGED <<tmp, dropped, ret, failure, pc>>
       ELSE \/ /\ Fail("entry_read")                  \* archive.by_index(i)?
               /\ UNCHANGED <<tmp, dropped, i>>
            \/ /\ dropped' = dropped \cup {i}        \* raw_copy_file fails: logged
               /\ i' = i + 1
               /\ UNCHANGED <<tmp, ret, failure, pc>>
            \/ /\ tmp' = [tmp EXCEPT ![d][k].entries = RawCopy(@, archive[i])]
               /\ i' = i + 1
               /\ UNCHANGED <<dropped, ret, failure, pc>>
    /\ UNCHANGED <<base, dirs, video, fs, run, d, k, stats, exit, reported, archive,
                   total_files, files_to_remove, bytes_to_remove, orig, origTmp,
                   ops, rebuilt, results>>

\* zip_writer.finish()? (193)
Finish ==
    /\ pc = "copy" /\ i > total_files
    /\ \/ /\ Fail("finish")
          /\ UNCHANGED tmp
       \/ /\ tmp' = [tmp EXCEPT ![d][k].finalized = TRUE]
          /\ pc' = "remove"
          /\ UNCHANGED <<ret, failure>>
    /\ UNCHANGED <<base, dirs, video, fs, run, d, k, stats, exit, reported, archive,
                   total_files, i, files_to_remove, bytes_to_remove, orig, origTmp,
                   ops, dropped, rebuilt, results>>

\* fs::remove_file(path)? (194)
RemoveOriginal ==
    /\ pc = "remove"
    /\ \/ /\ Fail("remove")
          /\ UNCHANGED <<fs, ops>>
       \/ /\ fs' = [fs EXCEPT ![d][k] = GoneFile]
          /\ ops' = Append(ops, "remove")
          /\ pc' = "rename"
          /\ UNCHANGED <<ret, failure>>
    /\ UNCHANGED <<base, dirs, video, tmp, run, d, k, stats, exit, reported, archive,
                   total_files, i, files_to_remove, bytes_to_remove, orig, origTmp,
                   dropped, rebuilt, results>>

\* the result of a successful rebuild (152)
RebuildResult(removal, bytes) ==
    [ok |-> TRUE, files |-> Len(removal), bytes |-> bytes]

\* fs::rename(temp_path, path)? and the return of process_iwd_file (195-197, 143-152)
RenameTemp ==
    /\ pc = "rename"
    /\ \/ /\ Fail("rename")
          /\ UNCHANGED <<fs, tmp, ops>>
       \/ /\ fs' = [fs EXCEPT ![d][k] = IwdFile(tmp[d][k].entries)]
          /\ tmp' = [tmp EXCEPT ![d][k] = NoTemp]
          /\ ops' = Append(ops, "rename")
          /\ ret' = RebuildResult(files_to_remove, bytes_to_remove)
          /\ pc' = "ret"
          /\ UNCHANGED failure
    /\ UNCHANGED <<base, dirs, video, run, d, k, stats, exit, reported, archive,
                   total_files, i, files_to_remove, bytes_to_remove, orig, origTmp,
                   dropped, rebuilt, results>>

\* what the match of process_iwd_files adds to stats (101-104)
Accumulate(s, r) == IF r.ok THEN StatsAdd(s, r.files, r.bytes) ELSE s

\* the error propagated with ? instead of being printed
ReturnPropagatingError ==
    /\ pc = "ret"
    /\ stats' = Accumulate(stats, ret)
    /\ results' = Append(results, [kind |-> "iwd", dir |-> d, entry |-> k,
                     ok |-> ret.ok, files |-> ret.files, bytes |-> ret.bytes])
    /\ IF ret.ok
       THEN k' = k + 1 /\ pc' = "walk" /\ exit' = exit
       ELSE k' = k /\ pc' = "exit" /\ exit' = "err"
    /\ rebuilt' = [rebuilt EXCEPT ![d][k] = @ \/ (ret.ok /\ "rename" \in Range(ops))]
    /\ CallReset
    /\ UNCHANGED <<fsv, run, d, reported>>

\* the match on the result and the step to the next directory entry (101-105)
Return ==
    /\ pc = "ret"
    /\ stats' = Accumulate(stats, ret)
    /\ results' = Append(results, [kind |-> "iwd", dir |-> d, entry |-> k,
                     ok |-> ret.ok, files |-> ret.files, bytes |-> ret.bytes])
    /\ k' = k + 1 /\ pc' = "walk"
    /\ rebuilt' = [rebuilt EXCEPT ![d][k] = @ \/ (ret.ok /\ "rename" \in Range(ops))]
    /\ CallReset
    /\ UNCHANGED <<fsv, run, d, exit, reported>>

\* the program is started again on the tree it left behind
Restart ==
    /\ pc = "exit" /\ run < MaxRuns
    /\ run' = run + 1 /\ pc' = "main" /\ exit' = "running"
    /\ reported' = NoReport /\ stats' = StatsNew /\ results' = <<>>
    /\ d' = 0 /\ k' = 0
    /\ UNCHANGED <<fsv, callv, histv, rebuilt>>

\* ------------------------------------------------------ initial trees
Entry(name, size) == [name |-> name, size |-> size]
SampleEntries ==
    { Entry(<<"a", ".", "cfg">>, 1),
      Entry(<<"images", "/", "x", ".", "dat">>, 2),
      Entry(<<"weapon", ".", "iwi">>, 4),
      Entry(<<"b", ".", "dat">>, 8) }

SeqsUpTo(S, n) == UNION {[1..m -> S] : m \in 0..n}

\* a container: each entry carries its name, its uncompressed size and its
\* raw record, identified by the position it had when the tree was set up
Containers ==
    { [n \in 1..Len(c) |-> [name |-> c[n].name, size |-> c[n].size, raw |-> n]] :
        c \in SeqsUpTo(SampleEntries, MaxEntries) }

MixedContainer ==
    << [name |-> <<"a", ".", "cfg">>, size |-> 1, raw |-> 1],
       [name |-> <<"weapon", ".", "iwi">>, size |-> 4, raw |-> 2] >>
RunFiles == {OtherFile, BadIwdFile, IwdFile(MixedContainer)}

InitProgram ==
    /\ run = 1 /\ pc = "main" /\ d = 0 /\ k = 0
    /\ stats = StatsNew /\ exit = "running" /\ reported = NoReport
    /\ archive = <<>> /\ total_files = 0 /\ i = 0
    /\ files_to_remove = <<>> /\ bytes_to_remove = 0 /\ ret = NoRet
    /\ orig = <<>> /\ origTmp = NoTemp /\ ops = <<>> /\ dropped = {}
    /\ failure = "none" /\ results = <<>>
    /\ tmp = [n \in Dirs |-> [m \in 1..Len(fs[n]) |-> NoTemp]]
    /\ rebuilt = [n \in Dirs |-> [m \in 1..Len(fs[n]) |-> FALSE]]

VideoDirs == {NoDir} \cup {VideoDir(size) : size \in 0..MaxVideo}

\* one container under <base>/main, of every content up to MaxEntries entries
Init ==
    /\ base = TRUE
    /\ dirs = [n \in Dirs |-> n = 1]
    /\ video \in {f \in [Dirs -> VideoDirs] : f[2] = NoDir}
    /\ \E file \in {IwdFile(c) : c \in Containers} \cup {BadIwdFile} :
          fs = [n \in Dirs |-> IF n = 1 THEN <<file>> ELSE <<>>]
    /\ InitProgram

\* up to MaxFiles directory entries over the two work directories
InitRun ==
    /\ base \in BOOLEAN
    /\ dirs \in [Dirs -> BOOLEAN]
    /\ video \in [Dirs -> VideoDirs]
    /\ fs \in [Dirs -> SeqsUpTo(RunFiles, MaxFiles)]
    /\ Len(fs[1]) + Len(fs[2]) <= MaxFiles
    /\ \A n \in Dirs : (~base \/ ~dirs[n]) => (video[n] = NoDir /\ fs[n] = <<>>)
    /\ base \/ \A n \in Dirs : ~dirs[n]
    /\ InitProgram

ProcessIwdFile ==
    \/ Open \/ AnalyzeStep \/ AnalyzeDone \/ CreateTemp \/ CopyStep \/ Finish
    \/ RemoveOriginal \/ RenameTemp

NextRun ==
    \/ MainStart \/ ProcessDirectory \/ ProcessVideoDirectory \/ WalkNext
    \/ ProcessIwdFile \/ Return \/ MainFinish

Next == NextRun \/ Restart

Spec    == Init /\ [][Next]_vars
SpecRun == InitRun /\ [][NextRun]_vars

\* -------------------------------------------- vocabulary of the claims
CallPcs == {"analyze", "create", "copy", "remove", "rename", "ret"}
InCall  == pc \in CallPcs
Here    == fs[d][k]
HereTmp == tmp[d][k]

RECURSIVE PickFrom(_, _, _)
PickFrom(s, I, n) ==
    IF n > Len(s) THEN <<>>
    ELSE (IF n \in I THEN <<s[n]>> ELSE <<>>) \o PickFrom(s, I, n + 1)
\* the entries of s whose index is in I, in their order in s
Pick(s, I) == PickFrom(s, I, 1)

Matching(c)   == {n \in 1..Len(c) : should_remove_file(c[n].name)}
RemovalSet    == Range(files_to_remove)
SizeSum(c, I) ==
    LET picked == Pick(c, I)
        f[n \in 0..Len(picked)] == IF n = 0 THEN 0 ELSE f[n - 1] + picked[n].size
    IN  f[Len(picked)]
RebuildSucceeded == pc = "ret" /\ ret.ok /\ files_to_remove # <<>>

\* C1 (as amended): after process_iwd_file returns success with a non-empty
\* removal set, the container at the original path holds exactly the original
\* entries whose index is not in the removal set and whose raw copy did not
\* fail, in their original relative order; no removed entry remains.
C1_RebuiltIsRetainedMinusDropped ==
    RebuildSucceeded =>
        /\ Here.kind = "iwd" /\ Here.valid
        /\ RemovalSet = Matching(orig)
        /\ Here.entries = Pick(orig, (1..Len(orig)) \ (RemovalSet \cup dropped))

\* C1 as claimed: the rebuilt container holds exactly the original entries
\* whose index is not in the removal set, none missing.
C1_Claimed_RebuiltIsRetained ==
    RebuildSucceeded =>
        /\ Here.kind = "iwd" /\ Here.valid
        /\ Here.entries = Pick(orig, (1..Len(orig)) \ RemovalSet)

C1_Witness ==
    /\ RebuildSucceeded /\ dropped # {}
    /\ Len(Here.entries) >= 1 /\ Len(orig) = 3

\* C2 as claimed: in every state of process_iwd_file the original path holds
\* either the complete original container or the finalized rebuilt one.
C2_Claimed_OriginalNeverLost ==
    InCall =>
        \/ Here.kind = "iwd" /\ Here.entries = orig /\ "remove" \notin Range(ops)
        \/ Here.kind = "iwd" /\ Here.valid /\ "rename" \in Range(ops)

\* C3 as claimed: when the rebuild fails after the temporary file was created,
\* the temporary file is gone when process_iwd_file returns its error.
C3_Claimed_TempRemovedOnError ==
    (pc = "ret" /\ ~ret.ok /\ "create" \in Range(ops)) => ~HereTmp.exists

\* C4: when no entry of the container matches the removal predicate, the call
\* never reaches the rebuild and performs no filesystem mutation (no temporary
\* file created, the original not written, deleted or renamed), and when the
\* inspection completes it returns (0, 0).
C4_NoOpWhenNothingMatches ==
    (InCall /\ Matching(orig) = {}) =>
        /\ pc \in {"analyze", "ret"}
        /\ ops = <<>> /\ Here.entries = orig /\ Here.kind = "iwd"
        /\ HereTmp = origTmp
        /\ (pc = "ret" /\ failure = "none") =>
                ret = [ok |-> TRUE, files |-> 0, bytes |-> 0]

C4_Witness ==
    /\ pc = "ret" /\ failure = "none" /\ Matching(orig) = {} /\ Len(orig) >= 2
    /\ ret = [ok |-> TRUE, files |-> 0, bytes |-> 0]

\* C5: a call on a container that an earlier successful call rebuilt computes
\* an empty removal set, leaves the container unchanged and, when its
\* inspection completes, returns (0, 0).
C5_SecondRunIsNoOp ==
    (InCall /\ rebuilt[d][k]) =>
        /\ files_to_remove = <<>> /\ ops = <<>>
        /\ pc \in {"analyze", "ret"}
        /\ Here.entries = orig /\ Here.kind = "iwd"
        /\ (pc = "ret" /\ failure = "none") =>
                ret = [ok |-> TRUE, files |-> 0, bytes |-> 0]

C5_Witness ==
    /\ run = 2 /\ pc = "ret" /\ rebuilt[d][k] /\ failure = "none"
    /\ Len(orig) >= 2 /\ ret = [ok |-> TRUE, files |-> 0, bytes |-> 0]

\* C6: when opening the container fails or an entry cannot be read during the
\* inspection, process_iwd_file returns an error with the filesystem
\* unchanged: the original untouched, no temporary file created.
C6_InspectionErrorLeavesFilesUntouched ==
    (pc = "ret" /\ failure \in {"open", "inspect"}) =>
        /\ ~ret.ok
        /\ ops = <<>> /\ Here.entries = orig /\ Here.kind = "iwd"
        /\ HereTmp = origTmp

C6_Witness ==
    pc = "ret" /\ failure = "inspect" /\ files_to_remove # <<>> /\ ~ret.ok

\* C10 as claimed: a failure on a single retained entry during the rebuild
\* never aborts it: unless finalizing or swapping fails, the call succeeds,
\* the failed entries are dropped, every other retained entry is copied and
\* the counts are those of the removal set.
C10_Claimed_EntryFailureNeverAborts ==
    (pc = "ret" /\ "create" \in Range(ops)
        /\ failure \notin {"finish", "remove", "rename"}) =>
        /\ ret = [ok |-> TRUE, files |-> Cardinality(RemovalSet),
                  bytes |-> SizeSum(orig, RemovalSet)]
        /\ Here.kind = "iwd"
        /\ Here.entries = Pick(orig, (1..Len(orig)) \ (RemovalSet \cup dropped))

\* ------------------------------------------------- the run's aggregate
SumOf(log, kind, field) ==
    LET f[n \in 0..Len(log)] ==
            IF n = 0 THEN 0
            ELSE f[n - 1] + (IF log[n].kind = kind THEN log[n][field] ELSE 0)
    IN  f[Len(log)]
Processed == {<<results[n].dir, results[n].entry>> :
                n \in {m \in 1..Len(results) : results[m].kind = "iwd"}}
Containers_In_Tree ==
    UNION {{<<n, m>> : m \in {j \in 1..Len(fs[n]) : fs[n][j].kind \in {"iwd", "gone"}}} :
             n \in {j \in Dirs : dirs[j]}}

\* C7: a container whose processing returns an error leaves the aggregate as
\* it was and the walk goes on to the next directory entry; a run that
\* completes has processed every container of both work directories,
\* whatever errors the earlier ones returned.
C7_FailureIsolation ==
    /\ [][(pc = "ret" /\ ~ret.ok) =>
            /\ stats' = stats /\ exit' = "running"
            /\ pc' = "walk" /\ d' = d /\ k' = k + 1]_vars
    /\ [](reported.shown => Containers_In_Tree \subseteq Processed)

C7_Witness ==
    /\ reported.shown
    /\ \E n \in 1..Len(results) : \E m \in (n + 1)..Len(results) :
          /\ results[n].kind = "iwd" /\ ~results[n].ok /\ results[n].dir = 1
          /\ results[m].kind = "iwd" /\ results[m].ok /\ results[m].files > 0
          /\ results[m].dir = 2

\* C8 (as amended): the reported totals are: files_removed, the sum of the
\* per-container removed counts; bytes_removed, the sum of the per-container
\* removed bytes plus the sizes measured for the deleted video directories.
C8_TotalsAreContainersPlusVideo ==
    /\ stats.files_removed = SumOf(results, "iwd", "files")
    /\ stats.bytes_removed = SumOf(results, "iwd", "bytes")
                                + SumOf(results, "video", "bytes")
    /\ reported.shown =>
          /\ reported.files = SumOf(results, "iwd", "files")
          /\ reported.bytes = SumOf(results, "iwd", "bytes")
                                + SumOf(results, "video", "bytes")

\* C8 as claimed: the reported totals equal the sum of the per-container
\* (removed_count, removed_bytes) results.
C8_Claimed_TotalsAreContainerSums ==
    reported.shown =>
        /\ reported.files = SumOf(results, "iwd", "files")
        /\ reported.bytes = SumOf(results, "iwd", "bytes")

C8_Witness ==
    /\ reported.shown
    /\ SumOf(results, "video", "bytes") > 0
    /\ SumOf(results, "iwd", "files") >= 2

\* ------------------------------------------------ names, one at a time
Atoms == {"/", ".", "images", "sound", "iwi", "mp3", "x"}
LiteralNames ==
    { <<"images", "/", "hud", "/", "icon", ".", "iwi">>,
      <<"weapon", ".", "iwi">>,
      <<"scripts", "/", "images", "_backup", ".", "txt">>,
      <<"images", "backup", "/", "foo", ".", "dat">>,
      <<"readme", ".", "txt">>,
      <<"video", "/", "intro", ".", "bik">>,
      <<"Images", "/", "x", ".", "IWI">>,
      <<"x", ".", "iwi", "/", ".">>,
      <<"x", "/", ".", "/", ".", "mp3">> }
LiteralRemoved ==
    { <<"images", "/", "hud", "/", "icon", ".", "iwi">>, <<"weapon", ".", "iwi">> }
LiteralKept ==
    { <<"scripts", "/", "images", "_backup", ".", "txt">>,
      <<"images", "backup", "/", "foo", ".", "dat">>,
      <<"readme", ".", "txt">> }
Names == SeqsUpTo(Atoms, MaxNameLen) \cup LiteralNames

\* one container under <base>/main holding one entry of any name
InitNames ==
    /\ base = TRUE
    /\ dirs = [n \in Dirs |-> n = 1]
    /\ video = [n \in Dirs |-> NoDir]
    /\ \E name \in Names :
          fs = [n \in Dirs |->
                  IF n = 1 THEN <<IwdFile(<<[name |-> name, size |-> 1, raw |-> 1]>>)>>
                  ELSE <<>>]
    /\ InitProgram

SpecNames == InitNames /\ [][NextRun]_vars

Segments(name) == SplitAt(name, "/")
IsPattern(seg) == \E n \in 1..Len(REMOVABLE_PATTERNS) : seg = <<REMOVABLE_PATTERNS[n]>>
IsExtension(e) == \E n \in 1..Len(REMOVABLE_EXTENSIONS) : e = <<REMOVABLE_EXTENSIONS[n]>>
AfterFinalDot(seg) == SubSeq(seg, LastDot(seg) + 1, Len(seg))

\* the first slash-separated segment is a configured directory name, or the
\* substring after the final "." of the final segment is a configured extension
ClaimedRemovable(name) ==
    LET segs == Segments(name)
        last == segs[Len(segs)]
    IN  \/ IsPattern(segs[1])
        \/ LastDot(last) >= 1 /\ IsExtension(AfterFinalDot(last))

\* the same, with the extension taken from the last segment that is neither
\* empty nor ".", and only from a "." that is not that segment's first character
AmendedRemovable(name) ==
    LET segs == SelectSeq(Segments(name), LAMBDA g : g # <<>> /\ g # <<".">>)
    IN  \/ IsPattern(Segments(name)[1])
        \/ /\ segs # <<>>
           /\ LastDot(segs[Len(segs)]) >= 2
           /\ IsExtension(AfterFinalDot(segs[Len(segs)]))

Classified == pc \in CallPcs \ {"analyze"} \/ (pc = "analyze" /\ i > Len(archive))
Inspected  == failure \notin {"open", "inspect"}

\* C9 (as amended): the inspection selects an entry if and only if the first
\* slash-separated segment of its name is exactly images, sound or video, or
\* the last segment of the name that is neither empty nor "." has a "." after
\* its first character and the substring after its final "." is exactly iwi or
\* mp3; images/hud/icon.iwi and weapon.iwi are selected, and
\* scripts/images_backup.txt, imagesbackup/foo.dat and readme.txt are not.
C9_RemovalPredicate ==
    (Classified /\ Inspected) =>
        \A n \in 1..Len(orig) :
            /\ (n \in RemovalSet) <=> AmendedRemovable(orig[n].name)
            /\ orig[n].name \in LiteralRemoved => n \in RemovalSet
            /\ orig[n].name \in LiteralKept => n \notin RemovalSet

\* C9 as claimed: an entry is selected if and only if the first segment is a
\* configured directory name or the substring after the final "." in the final
\* path segment is a configured extension.
C9_Claimed_RemovalPredicate ==
    (Classified /\ Inspected) =>
        \A n \in 1..Len(orig) : (n \in RemovalSet) <=> ClaimedRemovable(orig[n].name)

C9_Witness ==
    /\ Classified /\ Inspected /\ Len(orig) = 1
    /\ orig[1].name = <<"x", "/", ".", "mp3">>
    /\ RemovalSet = {}
====
